---- MODULE Spec2Model ----
(***************************************************************************)
(* State-machine model of the database merge tool (src/src/main.rs).       *)
(*                                                                         *)
(* One run of MergeTool::execute is modelled statement by statement: the   *)
(* tool's fields (the three id mappings, dry_run, the configured offset),  *)
(* the rows of the source store (server2) and of the target store          *)
(* (server1), the staging tables the target connection creates, and the    *)
(* position of the single thread of control.  Every statement sent to a    *)
(* store may fail (the `?` after it), which is how the error paths are     *)
(* explored.  What the stores do with COMMIT/ROLLBACK (durability,         *)
(* implicit commits) is not part of the tool and is not modelled: the      *)
(* model records which statements the tool issues and the rows those      *)
(* statements have produced in the target session.                         *)
(***************************************************************************)
EXTENDS Integers, Sequences, FiniteSets, TLC

\* ---------------------------------------------------------------- bounds

\* Source ids are drawn from 1..MaxId.
MaxId == 2

\* The longest members array of the specification of the rewriter.
MaxMembers == 2

\* ------------------------------------------------------ program constants

\* i32 (MergeConfig::id_offset, the mappings' keys and values).
I32Max == 2147483647

I32Min == -I32Max - 1

\* LIMIT 20 of the orphan sample, and the "count > 20" remainder.
SampleLimit == 20

\* The "no clan" value the clan-reference update skips.
Sentinel == -1

\* ----------------------------------------------------------------- values

\* A nullable column value: <<>> is SQL NULL, <<v>> is the value v.
Null == <<>>

Some(v) == <<v>>

IsNull(x) == x = <<>>

Val(x) == x[1]

\* `old_id + offset` on i32 (lines 318, 433, 521), wrapping as a build
\* without overflow checks does; inside the i32 range it is plain addition.
AddI32(a, b) ==
    IF b > 0 /\ a > I32Max - b THEN (a - I32Max - 1) + (b - I32Max - 1)
    ELSE IF b < 0 /\ a < I32Min - b THEN (a + I32Max + 1) + (b + I32Max + 1)
    ELSE a + b

\* Whether a value fits the INT column it is stored in.
InIntRange(v) == I32Min <= v /\ v <= I32Max

EmptyMap == [k \in {} |-> 0]

\* HashMap::insert(k, v)
MapInsert(m, k, v) == [x \in DOMAIN m \cup {k} |-> IF x = k THEN v ELSE m[x]]

\* Variant of GetOr: the mapping is not consulted.
GetOrKeepsKey(m, k) == k

\* player_mapping.get(&k).copied().unwrap_or(k)  (lines 670-674, 718-722)
GetOr(m, k) == IF k \in DOMAIN m THEN m[k] ELSE k

\* ------------------------------------------------- the members JSON text

(***************************************************************************)
(* A clan's `members` column is text.  Its model keeps what the rewriter   *)
(* can tell apart: whether the text is empty, whether it parses as a JSON  *)
(* array, and per element its encoding ("obj": a raw object, "str": a JSON *)
(* string holding text, "raw": any other raw value), whether the element's *)
(* payload parses as a JSON object, the object's "id" field, and a token   *)
(* standing for all its other fields.  An integer id is hi * 2^32 + lo     *)
(* with lo in the i32 range, so that `as i32` (lines 606, 640) is lo.      *)
(***************************************************************************)
NoId == [t |-> "none", hi |-> 0, lo |-> 0]

IntId(hi, lo) == [t |-> "int", hi |-> hi, lo |-> lo]

\* An "id" that is present but not an integer (as_i64 gives None).
OtherId == [t |-> "other", hi |-> 0, lo |-> 0]

Member(enc, ok, id, rest) == [enc |-> enc, ok |-> ok, id |-> id, rest |-> rest]

EmptyText == [kind |-> "empty", elems |-> <<>>]

BadText == [kind |-> "bad", elems |-> <<>>]

ArrayText(elems) == [kind |-> "array", elems |-> elems]

Ok(v) == [ok |-> TRUE, value |-> v]

Err == [ok |-> FALSE, value |-> EmptyText]

\* Variant of RewriteId: the mapped id is looked up and not written back.
RewriteIdKeepsId(pm, m) == m

\* lines 604-612 and 639-644: the id is replaced when it is an integer whose
\* i32 truncation is a key of the player mapping.
RewriteId(pm, m) ==
    IF m.id.t = "int" /\ m.id.lo \in DOMAIN pm
    THEN [m EXCEPT !.id = IntId(0, pm[m.id.lo])]
    ELSE m

\* update_clan_members_json_as_objects: only raw objects are looked at; every
\* other element is written back as it was read.
update_clan_members_json_as_objects(pm, text) ==
    IF text.kind # "array" THEN Err
    ELSE Ok(ArrayText([i \in 1..Len(text.elems) |->
                IF text.elems[i].enc = "obj"
                THEN RewriteId(pm, text.elems[i])
                ELSE text.elems[i]]))

\* The loop of update_clan_members_json from element i on, `acc` holding the
\* string elements rewritten so far.
RECURSIVE MembersLoop(_, _, _, _)
MembersLoop(pm, text, i, acc) ==
    IF i > Len(text.elems) THEN Ok(ArrayText(acc))
    ELSE LET m == text.elems[i] IN
         IF m.enc = "raw" \/ ~m.ok THEN Err
         ELSE IF m.enc = "str"
              THEN MembersLoop(pm, text, i + 1, Append(acc, RewriteId(pm, m)))
              ELSE update_clan_members_json_as_objects(pm, text)

update_clan_members_json(pm, text) ==
    IF text.kind # "array" THEN Err ELSE MembersLoop(pm, text, 1, <<>>)

\* ---------------------------------------------------- the operator's input

(***************************************************************************)
(* A line read from stdin is a sequence of characters; "sp" is a space and *)
(* "nl" the line feed read_line keeps.                                     *)
(***************************************************************************)
IsSpace(c) == c \in {"sp", "nl"}

RECURSIVE TrimStart(_)
TrimStart(s) ==
    IF s # <<>> /\ IsSpace(Head(s)) THEN TrimStart(Tail(s)) ELSE s

RECURSIVE TrimEnd(_)
TrimEnd(s) ==
    IF s # <<>> /\ IsSpace(s[Len(s)]) THEN TrimEnd(SubSeq(s, 1, Len(s) - 1)) ELSE s

Trim(s) == TrimEnd(TrimStart(s))

LowerChar(c) ==
    CASE c = "Y" -> "y" [] c = "E" -> "e" [] c = "S" -> "s"
      [] c = "N" -> "n" [] c = "O" -> "o" [] OTHER -> c

ToLowercase(s) == [i \in 1..Len(s) |-> LowerChar(s[i])]

\* Variant of IsYes: every answer but "no" is taken for a yes.
IsYesUnlessNo(input) == ToLowercase(Trim(input)) # <<"n", "o">>

\* input.trim().to_lowercase() == "yes"  (lines 128, 156)
IsYes(input) == ToLowercase(Trim(input)) = <<"y", "e", "s">>

Answers ==
    { <<"y", "e", "s", "nl">>,
      <<"sp", "Y", "E", "S", "nl">>,
      <<"n", "o", "nl">>,
      <<"y", "nl">> }

\* -------------------------------------------------------------- the state

VARIABLES
    dry_run,          \* MergeTool::dry_run (--dry-run)
    id_offset,        \* config.merge.id_offset
    same_name,        \* whether the name config.server2.database, resolved on
                      \* the target connection, is the target's own schema
    src,              \* the source store's tables (server2)
    tgt,              \* the target store as its session sees it (server1)
    tgt0,             \* the target store's tables before the run
    account_mapping,  \* MergeTool::account_mapping
    player_mapping,   \* MergeTool::player_mapping
    clan_mapping,     \* MergeTool::clan_mapping
    pc,               \* the statement the thread of control is at
    todo,             \* the rows the current `for` loop has still to visit
    result,           \* what run_merge returned: "none", "ok", "err"
    outcome,          \* how execute ended
    stmts,            \* the kinds of statement issued so far, per store
    tx,               \* the state of each store's transaction
    started,          \* the steps of run_merge entered so far, in order
    finished,         \* the steps of run_merge that returned Ok, in order
    prompts,          \* the prompts asked so far, with the line read
    report            \* what verify_merge printed

vars ==
    << dry_run, id_offset, same_name, src, tgt, tgt0, account_mapping,
       player_mapping, clan_mapping, pc, todo, result, outcome, stmts, tx,
       started, finished, prompts, report >>

config == << dry_run, id_offset, same_name, src, tgt0 >>

mappings == << account_mapping, player_mapping, clan_mapping >>

\* ------------------------------------------------------------- the inputs

SrcIds == 1..MaxId

\* An id no source row has.
DanglingId == MaxId + 7

Offsets == {1, 10}

\* A player row: id, account_id and the clan reference clan_id_sv{N}.
PlayerRow(id, account_id, clan) ==
    [id |-> id, account_id |-> account_id, clan |-> clan, old_id |-> Null]

\* The rows a source player table is made of: a player of account 1 and clan
\* 1, the same player without a clan and with an account the source does not
\* hold, and a player whose two references are NULL.
PlayerPool ==
    { PlayerRow(1, Some(1), Some(1)),
      PlayerRow(1, Some(DanglingId), Some(Sentinel)),
      PlayerRow(2, Null, Null) }

\* The tables whose rows have distinct ids (the primary key).
KeyedTables(rows) ==
    { T \in SUBSET rows : \A a, b \in T : a.id = b.id => a = b }

PlayerTables == KeyedTables(PlayerPool)

ClanRow(id, members) == [id |-> id, members |-> members]

\* The members texts of the source's clans: not JSON, an array of raw
\* objects, an array of string-encoded objects.
MembersPool ==
    { BadText,
      ArrayText(<< Member("obj", TRUE, IntId(0, 1), 1) >>),
      ArrayText(<< Member("str", TRUE, IntId(0, 1), 1),
                   Member("str", TRUE, IntId(0, DanglingId), 2) >>) }

ClanIds == {1}

ClanTables == KeyedTables({ClanRow(i, m) : i \in ClanIds, m \in MembersPool})

\* A gift_code_histories row (the table has no key the tool writes) and a
\* player_vip row; `code` stands for the columns copied as they are.
AuxRow(player_id, code) == [player_id |-> player_id, code |-> code]

AuxTables == { <<>>, << AuxRow(1, 1) >> }

\* The ids of the rows the target holds before the run.
TargetIds == {12}

TargetBefore(cols) ==
    [ account |-> {[id |-> i, old_id |-> Null] : i \in TargetIds},
      player |-> {PlayerRow(i, Some(i), Some(Sentinel)) : i \in TargetIds},
      clan |-> {ClanRow(i, EmptyText) : i \in TargetIds},
      gift |-> << AuxRow(12, 7) >>,
      vip |-> << AuxRow(12, 7) >>,
      cols |-> cols,
      temp_player |-> [exists |-> FALSE, has_old |-> FALSE, rows |-> {}],
      temp_clan |-> [exists |-> FALSE, rows |-> {}],
      fk_checks |-> 1 ]

Steps ==
    << "schema", "accounts", "players", "clans", "histories", "auxiliary",
       "verify" >>

\* What the run has shown so far: whether the read of player_vip succeeded
\* (line 739 is printed only then) and the orphan report of verify_merge.
NoReport ==
    [vip_read |-> "none", printed |-> FALSE, count |-> 0, sample |-> {},
     remainder |-> 0]

Init ==
    /\ dry_run \in BOOLEAN
    /\ id_offset \in Offsets
    /\ same_name \in BOOLEAN
    /\ src \in [ account : SUBSET SrcIds,
                 player : PlayerTables,
                 clan : ClanTables,
                 gift : AuxTables,
                 vip : AuxTables ]
    /\ \E cols \in {[account |-> had, player |-> had] : had \in BOOLEAN} :
          /\ tgt = TargetBefore(cols)
          /\ tgt0 = TargetBefore(cols)
    /\ account_mapping = EmptyMap
    /\ player_mapping = EmptyMap
    /\ clan_mapping = EmptyMap
    /\ pc = "stats"
    /\ todo = <<>>
    /\ result = "none"
    /\ outcome = "running"
    /\ stmts = [t |-> {}, s |-> {}]
    /\ tx = [t |-> "none", s |-> "none"]
    /\ started = <<>>
    /\ finished = <<>>
    /\ prompts = <<>>
    /\ report = NoReport

\* ------------------------------------------------------------- statements

\* Variant of IssueT: the statement goes out on the source connection.
IssueTOnSource(k) == stmts' = [stmts EXCEPT !.s = @ \cup {k}]

\* A statement of kind k sent on the target (server1) or source (server2)
\* connection; it is recorded whether or not the store then reports an error.
IssueT(k) == stmts' = [stmts EXCEPT !.t = @ \cup {k}]

IssueS(k) == stmts' = [stmts EXCEPT !.s = @ \cup {k}]

\* Variant of MergeFails: the Err arm of execute returns the error without
\* rolling anything back.
MergeFailsNoRollback ==
    /\ result' = "err"
    /\ pc' = "done"
    /\ outcome' = "error"

\* Variant of MergeFails: the Err arm of execute does not look at dry_run
\* before it rolls back.
MergeFailsRollsBackDryRun ==
    /\ result' = "err"
    /\ pc' = "rollback_t"
    /\ UNCHANGED outcome

\* `?` inside run_merge: run_merge returns Err, and execute (lines 168-174)
\* goes to its rollback arm, which in dry-run only returns the error.
MergeFails ==
    /\ result' = "err"
    /\ pc' = IF dry_run THEN "done" ELSE "rollback_t"
    /\ outcome' = IF dry_run THEN "error" ELSE outcome

\* `?` in execute outside the match arms' rollback: execute returns Err.
ExecuteFails ==
    /\ pc' = "done"
    /\ outcome' = "error"

Enter(step) == started' = Append(started, step)

Leave(step) == finished' = Append(finished, step)

\* ---------------------------------------------------------------- execute

\* print_statistics (lines 245-268): row counts of four tables on each store,
\* over connections of its own, before anything else.
PrintStatistics ==
    /\ pc = "stats"
    /\ \/ /\ stmts' = [t |-> stmts.t \cup {"SELECT"}, s |-> stmts.s \cup {"SELECT"}]
          /\ pc' = "confirm"
          /\ UNCHANGED outcome
       \/ /\ \E both \in BOOLEAN :
                stmts' = [t |-> stmts.t \cup {"SELECT"},
                          s |-> IF both THEN stmts.s \cup {"SELECT"} ELSE stmts.s]
          /\ ExecuteFails
    /\ UNCHANGED << config, tgt, mappings, todo, result, tx, started, finished,
                    prompts, report >>

\* lines 124-132: the first prompt, asked only when not dry-run.
ConfirmMerge ==
    /\ pc = "confirm"
    /\ \/ /\ dry_run
          /\ pc' = "connect"
          /\ UNCHANGED << outcome, prompts >>
       \/ /\ ~dry_run
          /\ \E input \in Answers :
                /\ prompts' = Append(prompts, [q |-> "merge", input |-> input])
                /\ IF IsYes(input)
                   THEN pc' = "connect" /\ UNCHANGED outcome
                   ELSE pc' = "done" /\ outcome' = "cancelled"
       \/ /\ ~dry_run                       \* read_line fails
          /\ ExecuteFails
          /\ UNCHANGED prompts
    /\ UNCHANGED << config, tgt, mappings, todo, result, stmts, tx, started,
                    finished, report >>

\* lines 135-136: get_conn on both pools.
GetConns ==
    /\ pc = "connect"
    /\ \/ /\ pc' = IF dry_run THEN "fk_off" ELSE "begin_t"
          /\ UNCHANGED outcome
       \/ ExecuteFails
    /\ UNCHANGED << config, tgt, mappings, todo, result, stmts, tx, started,
                    finished, prompts, report >>

\* line 139
StartTransactionTarget ==
    /\ pc = "begin_t"
    /\ IssueT("START TRANSACTION")
    /\ \/ /\ tx' = [tx EXCEPT !.t = "open"]
          /\ pc' = "begin_s"
          /\ UNCHANGED outcome
       \/ /\ ExecuteFails
          /\ UNCHANGED tx
    /\ UNCHANGED << config, tgt, mappings, todo, result, started, finished,
                    prompts, report >>

\* line 140
StartTransactionSource ==
    /\ pc = "begin_s"
    /\ IssueS("START TRANSACTION")
    /\ \/ /\ tx' = [tx EXCEPT !.s = "open"]
          /\ pc' = "fk_off"
          /\ UNCHANGED outcome
       \/ /\ ExecuteFails
          /\ UNCHANGED tx
    /\ UNCHANGED << config, tgt, mappings, todo, result, started, finished,
                    prompts, report >>

\* ---------------------------------------------------------------- run_merge

\* line 184
DisableForeignKeyChecks ==
    /\ pc = "fk_off"
    /\ IssueT("SET")
    /\ \/ /\ tgt' = [tgt EXCEPT !.fk_checks = 0]
          /\ pc' = "col_account"
          /\ UNCHANGED << result, outcome >>
       \/ /\ MergeFails
          /\ UNCHANGED tgt
    /\ UNCHANGED << config, mappings, todo, tx, started, finished, prompts,
                    report >>

\* Variant of SkipsAlter: ensure_old_id_columns does not look at dry_run.
SkipsAlterIgnoresDryRun(has_column) == has_column

\* Variant of SkipsAlter: the result of the catalog query is not looked at.
SkipsAlterWithoutLooking(has_column) == dry_run

\* lines 214-218 and 230-236: the ALTER is issued only when the catalog does
\* not list the column and the run is not a dry run.
SkipsAlter(has_column) == has_column \/ dry_run

\* ensure_old_id_columns, the account half (lines 209-222).
EnsureOldIdAccount ==
    /\ pc = "col_account"
    /\ Enter("schema")
    /\ \/ /\ IssueT("SELECT")                          \* the catalog query fails
          /\ MergeFails
          /\ UNCHANGED tgt
       \/ /\ SkipsAlter(tgt.cols.account)
          /\ IssueT("SELECT")
          /\ pc' = "col_player"
          /\ UNCHANGED << tgt, result, outcome >>
       \/ /\ ~SkipsAlter(tgt.cols.account)
          /\ stmts' = [stmts EXCEPT !.t = @ \cup {"SELECT", "ALTER"}]
          /\ \/ /\ tgt' = [tgt EXCEPT !.cols.account = TRUE]
                /\ pc' = "col_player"
                /\ UNCHANGED << result, outcome >>
             \/ /\ MergeFails
                /\ UNCHANGED tgt
    /\ UNCHANGED << config, mappings, todo, tx, finished, prompts, report >>

\* ensure_old_id_columns, the player half (lines 225-242).
EnsureOldIdPlayer ==
    /\ pc = "col_player"
    /\ \/ /\ IssueT("SELECT")
          /\ MergeFails
          /\ UNCHANGED << tgt, finished >>
       \/ /\ SkipsAlter(tgt.cols.player)
          /\ IssueT("SELECT")
          /\ pc' = "acc_read"
          /\ Leave("schema")
          /\ UNCHANGED << tgt, result, outcome >>
       \/ /\ ~SkipsAlter(tgt.cols.player)
          /\ stmts' = [stmts EXCEPT !.t = @ \cup {"SELECT", "ALTER"}]
          /\ \/ /\ tgt' = [tgt EXCEPT !.cols.player = TRUE]
                /\ pc' = "acc_read"
                /\ Leave("schema")
                /\ UNCHANGED << result, outcome >>
             \/ /\ MergeFails
                /\ UNCHANGED << tgt, finished >>
    /\ UNCHANGED << config, mappings, todo, tx, started, prompts, report >>

\* ----------------------------------------------------------- merge_accounts

RECURSIVE SetToSeq(_)
SetToSeq(S) ==
    IF S = {} THEN <<>>
    ELSE LET m == CHOOSE x \in S : \A y \in S : x <= y
         IN << m >> \o SetToSeq(S \ {m})

Remove(seq, i) == SubSeq(seq, 1, i - 1) \o SubSeq(seq, i + 1, Len(seq))

\* Variant of NewId: the offset is not added.
NewIdNoOffset(old_id) == old_id

\* `old_id + offset` leaves i32.
Overflows(old_id) ==
    \/ id_offset > 0 /\ old_id > I32Max - id_offset
    \/ id_offset < 0 /\ old_id < I32Min - id_offset

\* A build with overflow checks panics on such a sum ("attempt to add with
\* overflow") and main ends there; a build without them wraps (AddI32).
AddPanics ==
    /\ pc' = "done"
    /\ outcome' = "panic"
    /\ UNCHANGED result

\* let new_id = old_id + offset  (lines 318, 433, 521)
NewId(old_id) == AddI32(old_id, id_offset)

\* The row of the INSERT of lines 328-398: `id` is new_id, `old_id` old_id.
AccountInsertRow(old_id, new_id) == [id |-> new_id, old_id |-> Some(old_id)]

\* The primary key refuses a row whose id the table holds.
DuplicateKey(table, rows) == \E r \in rows : \E e \in table : e.id = r.id

\* line 305
ReadAccounts ==
    /\ pc = "acc_read"
    /\ Enter("accounts")
    /\ IssueS("SELECT")
    /\ \/ /\ src.account # {}
          /\ todo' = SetToSeq(src.account)
          /\ pc' = "acc_row"
          /\ UNCHANGED << result, outcome, finished >>
       \/ /\ src.account = {}
          /\ pc' = "pl_read"
          /\ Leave("accounts")
          /\ UNCHANGED << result, outcome, todo >>
       \/ /\ MergeFails
          /\ UNCHANGED << todo, finished >>
    /\ UNCHANGED << config, tgt, mappings, tx, prompts, report >>

\* One turn of the loop of lines 316-402, on any row not yet visited (the
\* SELECT states no order).
MergeAccountRow ==
    /\ pc = "acc_row"
    /\ \E i \in 1..Len(todo) :
          LET old_id == todo[i]
              new_id == NewId(old_id)
              rest == Remove(todo, i)
              next == /\ todo' = rest
                      /\ pc' = IF rest = <<>> THEN "pl_read" ELSE "acc_row"
                      /\ finished' = IF rest = <<>>
                                     THEN Append(finished, "accounts")
                                     ELSE finished
                      /\ UNCHANGED << result, outcome >>
          IN \E checked \in BOOLEAN :
             IF checked /\ Overflows(old_id)
             THEN /\ AddPanics
                  /\ UNCHANGED << account_mapping, tgt, stmts, todo, finished >>
             ELSE
             /\ account_mapping' = MapInsert(account_mapping, old_id, new_id)
             /\ \/ /\ dry_run
                   /\ next
                   /\ UNCHANGED << tgt, stmts >>
                \/ /\ ~dry_run
                   /\ IssueT("INSERT")
                   /\ \/ /\ ~DuplicateKey(tgt.account, {AccountInsertRow(old_id, new_id)})
                         /\ tgt' = [tgt EXCEPT !.account =
                                       @ \cup {AccountInsertRow(old_id, new_id)}]
                         /\ next
                      \/ /\ MergeFails
                         /\ UNCHANGED << tgt, todo, finished >>
    /\ UNCHANGED << config, player_mapping, clan_mapping, tx, started, prompts,
                    report >>

\* ------------------------------------------------------------ merge_players

\* Variant of BuildMapping: the loop inserts nothing.
BuildMappingInsertsNothing(m, ids) == m

\* The loops of lines 431-436 and 519-524: one insert per id read.
BuildMapping(m, ids) ==
    [k \in DOMAIN m \cup ids |-> IF k \in ids THEN NewId(k) ELSE m[k]]

\* The table `{server2.database}.player` as the TARGET connection resolves it
\* (line 454-455): the source's table when both schemas live on one server,
\* the target server's own schema of that name otherwise.  The column list
\* leaves old_id out.
XdbPlayer ==
    { [r EXCEPT !.old_id = Null] : r \in (IF same_name THEN tgt.player ELSE src.player) }

\* line 461
StagePlayerId(rows) == { [r EXCEPT !.id = r.id + id_offset] : r \in rows }

\* Variant of StagePlayerAccount: only the references to merged accounts
\* are offset.
StagePlayerAccountLooksUp(rows) ==
    { IF IsNull(r.account_id) \/ Val(r.account_id) \notin DOMAIN account_mapping
      THEN r
      ELSE [r EXCEPT !.account_id = Some(Val(r.account_id) + id_offset)] : r \in rows }

\* lines 462-465
StagePlayerAccount(rows) ==
    { IF IsNull(r.account_id) THEN r
      ELSE [r EXCEPT !.account_id = Some(Val(r.account_id) + id_offset)] : r \in rows }

\* Variant of StagePlayerClan: the UPDATE has no `clan != -1` condition.
StagePlayerClanNoGuard(rows) ==
    { IF IsNull(r.clan) THEN r
      ELSE [r EXCEPT !.clan = Some(Val(r.clan) + id_offset)] : r \in rows }

\* lines 466-469: `clan != -1` is not true of NULL either.
StagePlayerClan(rows) ==
    { IF IsNull(r.clan) \/ r.clan = Some(Sentinel) THEN r
      ELSE [r EXCEPT !.clan = Some(Val(r.clan) + id_offset)] : r \in rows }

\* Variant of StagePlayerOldId: old_id is set from the id already offset.
StagePlayerOldIdFromNewId(rows) == { [r EXCEPT !.old_id = Some(r.id)] : r \in rows }

\* lines 473-476
StagePlayerOldId(rows) == { [r EXCEPT !.old_id = Some(r.id - id_offset)] : r \in rows }

\* Variant of AfterPlayerMapping: run_merge calls merge_gift_code_histories
\* right after merge_players in dry-run.
AfterPlayerMappingSkipsClans == IF dry_run THEN "gh_read" ELSE "pl_cols"

\* Where merge_players goes once the mapping is built: line 438 skips the
\* staging in dry-run, and run_merge (lines 191-192) calls merge_clans next.
AfterPlayerMapping == IF dry_run THEN "cl_read" ELSE "pl_cols"

\* Lines 420-436: the ids are read from the SOURCE connection and the whole
\* mapping is built before anything else; dry-run stops here (line 438).
ReadPlayers ==
    /\ pc = "pl_read"
    /\ Enter("players")
    /\ IssueS("SELECT")
    /\ \/ \E checked \in BOOLEAN :
             IF checked /\ \E r \in src.player : Overflows(r.id)
             THEN /\ AddPanics
                  /\ UNCHANGED << player_mapping, finished >>
             ELSE
             /\ player_mapping' = BuildMapping(player_mapping, {r.id : r \in src.player})
             /\ pc' = AfterPlayerMapping
             /\ finished' = IF dry_run THEN Append(finished, "players") ELSE finished
             /\ UNCHANGED << result, outcome >>
       \/ /\ MergeFails
          /\ UNCHANGED << player_mapping, finished >>
    /\ UNCHANGED << config, tgt, account_mapping, clan_mapping, todo, tx,
                    prompts, report >>

\* A statement on the target's staging table temp_player: it fails, or it
\* leaves the table as `after`.
StagePlayerStep(at, kind, after, to) ==
    /\ pc = at
    /\ IssueT(kind)
    /\ \/ /\ tgt' = [tgt EXCEPT !.temp_player = after]
          /\ pc' = to
          /\ UNCHANGED << result, outcome >>
       \/ /\ MergeFails
          /\ UNCHANGED tgt
    /\ UNCHANGED << config, mappings, todo, tx, started, finished, prompts,
                    report >>

\* lines 441-446
PlayerColumns == StagePlayerStep("pl_cols", "SELECT", tgt.temp_player, "pl_stage")

\* lines 453-457
CreateTempPlayer ==
    StagePlayerStep("pl_stage", "CREATE TEMPORARY TABLE",
                    [exists |-> TRUE, has_old |-> FALSE, rows |-> XdbPlayer], "pl_id")

UpdateTempPlayerId ==
    StagePlayerStep("pl_id", "UPDATE",
                    [tgt.temp_player EXCEPT !.rows = StagePlayerId(@)], "pl_account")

UpdateTempPlayerAccount ==
    StagePlayerStep("pl_account", "UPDATE",
                    [tgt.temp_player EXCEPT !.rows = StagePlayerAccount(@)], "pl_clan")

UpdateTempPlayerClan ==
    StagePlayerStep("pl_clan", "UPDATE",
                    [tgt.temp_player EXCEPT !.rows = StagePlayerClan(@)], "pl_addcol")

\* line 472
AlterTempPlayer ==
    StagePlayerStep("pl_addcol", "ALTER",
                    [tgt.temp_player EXCEPT !.has_old = TRUE], "pl_old")

UpdateTempPlayerOldId ==
    StagePlayerStep("pl_old", "UPDATE",
                    [tgt.temp_player EXCEPT !.rows = StagePlayerOldId(@)], "pl_insert")

\* lines 483-486: one INSERT ... SELECT of every staged row.
InsertPlayers ==
    /\ pc = "pl_insert"
    /\ IssueT("INSERT")
    /\ \/ /\ ~DuplicateKey(tgt.player, tgt.temp_player.rows)
          /\ tgt' = [tgt EXCEPT !.player = @ \cup tgt.temp_player.rows]
          /\ pc' = "pl_drop"
          /\ UNCHANGED << result, outcome >>
       \/ /\ MergeFails
          /\ UNCHANGED tgt
    /\ UNCHANGED << config, mappings, todo, tx, started, finished, prompts,
                    report >>

\* line 488
DropTempPlayer ==
    /\ pc = "pl_drop"
    /\ IssueT("DROP TEMPORARY TABLE")
    /\ \/ /\ tgt' = [tgt EXCEPT !.temp_player =
                        [exists |-> FALSE, has_old |-> FALSE, rows |-> {}]]
          /\ pc' = "cl_read"
          /\ Leave("players")
          /\ UNCHANGED << result, outcome >>
       \/ /\ MergeFails
          /\ UNCHANGED << tgt, finished >>
    /\ UNCHANGED << config, mappings, todo, tx, started, prompts, report >>

\* -------------------------------------------------------------- merge_clans

\* `{server2.database}.clan_sv{N}` on the target connection (lines 543-546).
XdbClan == IF same_name THEN tgt.clan ELSE src.clan

\* line 551
StageClanId(rows) == { [r EXCEPT !.id = r.id + id_offset] : r \in rows }

\* The rows of a keyed table in the order of their ids.
RowsById(rows) ==
    LET ids == SetToSeq({r.id : r \in rows})
    IN [i \in 1..Len(ids) |-> CHOOSE r \in rows : r.id = ids[i]]

\* lines 508-524, and the dry-run exit of line 526
ReadClans ==
    /\ pc = "cl_read"
    /\ Enter("clans")
    /\ IssueS("SELECT")
    /\ \/ \E checked \in BOOLEAN :
             IF checked /\ \E r \in src.clan : Overflows(r.id)
             THEN /\ AddPanics
                  /\ UNCHANGED << clan_mapping, finished >>
             ELSE
             /\ clan_mapping' = BuildMapping(clan_mapping, {r.id : r \in src.clan})
             /\ pc' = IF dry_run THEN "gh_read" ELSE "cl_cols"
             /\ finished' = IF dry_run THEN Append(finished, "clans") ELSE finished
             /\ UNCHANGED << result, outcome >>
       \/ /\ MergeFails
          /\ UNCHANGED << clan_mapping, finished >>
    /\ UNCHANGED << config, tgt, account_mapping, player_mapping, todo, tx,
                    prompts, report >>

StageClanStep(at, kind, after, to) ==
    /\ pc = at
    /\ IssueT(kind)
    /\ \/ /\ tgt' = [tgt EXCEPT !.temp_clan = after]
          /\ pc' = to
          /\ UNCHANGED << result, outcome >>
       \/ /\ MergeFails
          /\ UNCHANGED tgt
    /\ UNCHANGED << config, mappings, todo, tx, started, finished, prompts,
                    report >>

\* lines 531-536
ClanColumns == StageClanStep("cl_cols", "SELECT", tgt.temp_clan, "cl_stage")

\* lines 543-547
CreateTempClan ==
    StageClanStep("cl_stage", "CREATE TEMPORARY TABLE",
                  [exists |-> TRUE, rows |-> XdbClan], "cl_id")

\* Variant of UpdateTempClanId: the UPDATE names the table clan_sv{N} itself.
UpdateClanIdInPlace ==
    /\ pc = "cl_id"
    /\ IssueT("UPDATE")
    /\ \/ /\ tgt' = [tgt EXCEPT !.clan = StageClanId(@),
                                !.temp_clan.rows = StageClanId(@)]
          /\ pc' = "cl_select"
          /\ UNCHANGED << result, outcome >>
       \/ /\ MergeFails
          /\ UNCHANGED tgt
    /\ UNCHANGED << config, mappings, todo, tx, started, finished, prompts,
                    report >>

\* line 551
UpdateTempClanId ==
    StageClanStep("cl_id", "UPDATE",
                  [tgt.temp_clan EXCEPT !.rows = StageClanId(@)], "cl_select")

\* lines 555-556
SelectTempClans ==
    /\ pc = "cl_select"
    /\ IssueT("SELECT")
    /\ \/ /\ todo' = RowsById(tgt.temp_clan.rows)
          /\ pc' = IF tgt.temp_clan.rows = {} THEN "cl_insert" ELSE "cl_row"
          /\ UNCHANGED << result, outcome >>
       \/ /\ MergeFails
          /\ UNCHANGED todo
    /\ UNCHANGED << config, tgt, mappings, tx, started, finished, prompts,
                    report >>

\* UPDATE temp_clan SET members = ? WHERE id = ?  (lines 564-567)
SetMembers(rows, clan_id, members) ==
    { IF r.id = clan_id THEN [r EXCEPT !.members = members] ELSE r : r \in rows }

\* One turn of the loop of lines 558-570.
UpdateClanMembers ==
    /\ pc = "cl_row"
    /\ \E i \in 1..Len(todo) :
          LET row == todo[i]
              rest == Remove(todo, i)
              updated == update_clan_members_json(player_mapping, row.members)
              next == /\ todo' = rest
                      /\ pc' = IF rest = <<>> THEN "cl_insert" ELSE "cl_row"
                      /\ UNCHANGED << result, outcome >>
          IN \/ /\ row.members = EmptyText
                /\ next
                /\ UNCHANGED << tgt, stmts >>
             \/ /\ row.members # EmptyText
                /\ ~updated.ok
                /\ MergeFails
                /\ UNCHANGED << tgt, stmts, todo >>
             \/ /\ row.members # EmptyText
                /\ updated.ok
                /\ IssueT("UPDATE")
                /\ \/ /\ tgt' = [tgt EXCEPT !.temp_clan.rows =
                                    SetMembers(@, row.id, updated.value)]
                      /\ next
                   \/ /\ MergeFails
                      /\ UNCHANGED << tgt, todo >>
    /\ UNCHANGED << config, mappings, tx, started, finished, prompts, report >>

\* lines 574-577
InsertClans ==
    /\ pc = "cl_insert"
    /\ IssueT("INSERT")
    /\ \/ /\ ~DuplicateKey(tgt.clan, tgt.temp_clan.rows)
          /\ tgt' = [tgt EXCEPT !.clan = @ \cup tgt.temp_clan.rows]
          /\ pc' = "cl_drop"
          /\ UNCHANGED << result, outcome >>
       \/ /\ MergeFails
          /\ UNCHANGED tgt
    /\ UNCHANGED << config, mappings, todo, tx, started, finished, prompts,
                    report >>

\* line 579
DropTempClan ==
    /\ pc = "cl_drop"
    /\ IssueT("DROP TEMPORARY TABLE")
    /\ \/ /\ tgt' = [tgt EXCEPT !.temp_clan = [exists |-> FALSE, rows |-> {}]]
          /\ pc' = "gh_read"
          /\ Leave("clans")
          /\ UNCHANGED << result, outcome >>
       \/ /\ MergeFails
          /\ UNCHANGED << tgt, finished >>
    /\ UNCHANGED << config, mappings, todo, tx, started, prompts, report >>

\* ------------------------------------------------ merge_gift_code_histories

\* line 658
ReadGiftHistories ==
    /\ pc = "gh_read"
    /\ Enter("histories")
    /\ IssueS("SELECT")
    /\ \/ /\ src.gift # <<>>
          /\ todo' = src.gift
          /\ pc' = "gh_row"
          /\ UNCHANGED << result, outcome, finished >>
       \/ /\ src.gift = <<>>
          /\ pc' = "vip_read"
          /\ Leave("histories")
          /\ UNCHANGED << result, outcome, todo >>
       \/ /\ MergeFails
          /\ UNCHANGED << todo, finished >>
    /\ UNCHANGED << config, tgt, mappings, tx, prompts, report >>

\* The row written for a source row of gift_code_histories or player_vip
\* (lines 669-688, 717-732).
RewriteAuxRow(row) == AuxRow(GetOr(player_mapping, row.player_id), row.code)

\* One turn of a loop that copies rows into the target table `table`.
CopyAuxRow(at, table, step, to) ==
    /\ pc = at
    /\ LET rest == Tail(todo)
           next == /\ todo' = rest
                   /\ pc' = IF rest = <<>> THEN to ELSE at
                   /\ finished' = IF rest = <<>> THEN Append(finished, step)
                                  ELSE finished
                   /\ UNCHANGED << result, outcome >>
       IN \/ /\ dry_run
             /\ next
             /\ UNCHANGED << tgt, stmts >>
          \/ /\ ~dry_run
             /\ IssueT("INSERT")
             /\ \/ /\ tgt' = [tgt EXCEPT ![table] = Append(@, RewriteAuxRow(Head(todo)))]
                   /\ next
                \/ /\ MergeFails
                   /\ UNCHANGED << tgt, todo, finished >>
    /\ UNCHANGED << config, mappings, tx, started, prompts, report >>

\* lines 668-692
MergeGiftRow == CopyAuxRow("gh_row", "gift", "histories", "vip_read")

\* --------------------------------------------------------- merge_other_tables

\* line 707: `if let Ok(vips) = ...` - a failed read of player_vip is not
\* propagated; the function goes on to return Ok.
ReadVips ==
    /\ pc = "vip_read"
    /\ Enter("auxiliary")
    /\ IssueS("SELECT")
    /\ \/ /\ src.vip # <<>>
          /\ report' = [report EXCEPT !.vip_read = "ok"]
          /\ todo' = src.vip
          /\ pc' = "vip_row"
          /\ UNCHANGED finished
       \/ /\ src.vip = <<>>
          /\ report' = [report EXCEPT !.vip_read = "ok"]
          /\ pc' = "fk_on"
          /\ Leave("auxiliary")
          /\ UNCHANGED todo
       \/ /\ report' = [report EXCEPT !.vip_read = "failed"]   \* the query fails
          /\ pc' = "fk_on"
          /\ Leave("auxiliary")
          /\ UNCHANGED todo
    /\ UNCHANGED << config, tgt, mappings, tx, prompts, result, outcome >>

\* lines 716-736
MergeVipRow == CopyAuxRow("vip_row", "vip", "auxiliary", "fk_on")

\* ------------------------------------------------- the end of run_merge

\* run_merge returns Ok: execute's Ok arm (lines 148-167).
MergeSucceeds ==
    /\ result' = "ok"
    /\ pc' = IF dry_run THEN "done" ELSE "commit_prompt"
    /\ outcome' = IF dry_run THEN "dry_ok" ELSE outcome

\* line 197
EnableForeignKeyChecks ==
    /\ pc = "fk_on"
    /\ IssueT("SET")
    /\ \/ /\ tgt' = [tgt EXCEPT !.fk_checks = 1]
          /\ pc' = "vf_count"
          /\ UNCHANGED << result, outcome >>
       \/ /\ MergeFails
          /\ UNCHANGED tgt
    /\ UNCHANGED << config, mappings, todo, tx, started, finished, prompts,
                    report >>

\* player p LEFT JOIN account a ON p.account_id = a.id WHERE a.id IS NULL
Orphans(players, accounts) ==
    { p \in players :
        IF IsNull(p.account_id) THEN TRUE
        ELSE \A a \in accounts : a.id # Val(p.account_id) }

Min(a, b) == IF a <= b THEN a ELSE b

\* lines 750-757 and 784-786: the count; nothing more when it is 0.
VerifyCount ==
    /\ pc = "vf_count"
    /\ Enter("verify")
    /\ IssueT("SELECT")
    /\ LET count == Cardinality(Orphans(tgt.player, tgt.account))
       IN \/ /\ count = 0
             /\ report' = [report EXCEPT !.printed = TRUE, !.count = 0]
             /\ Leave("verify")
             /\ MergeSucceeds
          \/ /\ count > 0
             /\ report' = [report EXCEPT !.printed = TRUE, !.count = count]
             /\ pc' = "vf_sample"
             /\ UNCHANGED << result, outcome, finished >>
          \/ /\ MergeFails
             /\ UNCHANGED << report, finished >>
    /\ UNCHANGED << config, tgt, mappings, todo, tx, prompts >>

\* The rows of the sample are converted to (i32, String, i32) (line 761):
\* the conversion of a row whose account_id is NULL panics, and main ends
\* there, with nothing listed and neither COMMIT nor ROLLBACK issued.
SamplePanics ==
    /\ pc' = "done"
    /\ outcome' = "panic"
    /\ UNCHANGED << result, report, finished >>

\* lines 761-777: at most SampleLimit of the orphans, and the remainder.
VerifySample ==
    /\ pc = "vf_sample"
    /\ IssueT("SELECT")
    /\ \/ \E sample \in SUBSET Orphans(tgt.player, tgt.account) :
             /\ Cardinality(sample) = Min(report.count, SampleLimit)
             /\ IF \E r \in sample : IsNull(r.account_id)
                THEN SamplePanics
                ELSE /\ report' = [report EXCEPT
                                      !.sample = sample,
                                      !.remainder = IF report.count > SampleLimit
                                                    THEN report.count - SampleLimit
                                                    ELSE 0]
                     /\ Leave("verify")
                     /\ MergeSucceeds
       \/ /\ MergeFails
          /\ UNCHANGED << report, finished >>
    /\ UNCHANGED << config, tgt, mappings, todo, tx, started, prompts >>

\* ------------------------------------------- execute: commit or rollback

\* lines 152-164: the second prompt.
AskCommit ==
    /\ pc = "commit_prompt"
    /\ \/ \E input \in Answers :
             /\ prompts' = Append(prompts, [q |-> "commit", input |-> input])
             /\ pc' = IF IsYes(input) THEN "commit_t" ELSE "rollback_t"
             /\ UNCHANGED outcome
       \/ /\ ExecuteFails                      \* read_line fails
          /\ UNCHANGED prompts
    /\ UNCHANGED << config, tgt, mappings, todo, result, stmts, tx, started,
                    finished, report >>

\* line 157
CommitTarget ==
    /\ pc = "commit_t"
    /\ IssueT("COMMIT")
    /\ \/ /\ tx' = [tx EXCEPT !.t = "committed"]
          /\ pc' = "commit_s"
          /\ UNCHANGED outcome
       \/ /\ ExecuteFails
          /\ UNCHANGED tx
    /\ UNCHANGED << config, tgt, mappings, todo, result, started, finished,
                    prompts, report >>

\* Variant of CommitSource: the result of the source's COMMIT is dropped.
CommitSourceIgnoringError ==
    /\ pc = "commit_s"
    /\ IssueS("COMMIT")
    /\ \/ tx' = [tx EXCEPT !.s = "committed"]
       \/ UNCHANGED tx
    /\ pc' = "done"
    /\ outcome' = "committed"
    /\ UNCHANGED << config, tgt, mappings, todo, result, started, finished,
                    prompts, report >>

\* line 158
CommitSource ==
    /\ pc = "commit_s"
    /\ IssueS("COMMIT")
    /\ \/ /\ tx' = [tx EXCEPT !.s = "committed"]
          /\ pc' = "done"
          /\ outcome' = "committed"
       \/ /\ ExecuteFails
          /\ UNCHANGED tx
    /\ UNCHANGED << config, tgt, mappings, todo, result, started, finished,
                    prompts, report >>

\* lines 161 and 170
RollbackTarget ==
    /\ pc = "rollback_t"
    /\ IssueT("ROLLBACK")
    /\ \/ /\ tx' = [tx EXCEPT !.t = "rolled_back"]
          /\ pc' = "rollback_s"
          /\ UNCHANGED outcome
       \/ /\ ExecuteFails
          /\ UNCHANGED tx
    /\ UNCHANGED << config, tgt, mappings, todo, result, started, finished,
                    prompts, report >>

\* lines 162-166 and 171-173
RollbackSource ==
    /\ pc = "rollback_s"
    /\ IssueS("ROLLBACK")
    /\ \/ /\ tx' = [tx EXCEPT !.s = "rolled_back"]
          /\ pc' = "done"
          /\ outcome' = IF result = "ok" THEN "rolled_back" ELSE "error"
       \/ /\ ExecuteFails
          /\ UNCHANGED tx
    /\ UNCHANGED << config, tgt, mappings, todo, result, started, finished,
                    prompts, report >>

\* ------------------------------------------------------- the specification

Next ==
    \/ PrintStatistics
    \/ ConfirmMerge
    \/ GetConns
    \/ StartTransactionTarget
    \/ StartTransactionSource
    \/ DisableForeignKeyChecks
    \/ EnsureOldIdAccount
    \/ EnsureOldIdPlayer
    \/ ReadAccounts
    \/ MergeAccountRow
    \/ ReadPlayers
    \/ PlayerColumns
    \/ CreateTempPlayer
    \/ UpdateTempPlayerId
    \/ UpdateTempPlayerAccount
    \/ UpdateTempPlayerClan
    \/ AlterTempPlayer
    \/ UpdateTempPlayerOldId
    \/ InsertPlayers
    \/ DropTempPlayer
    \/ ReadClans
    \/ ClanColumns
    \/ CreateTempClan
    \/ UpdateTempClanId
    \/ SelectTempClans
    \/ UpdateClanMembers
    \/ InsertClans
    \/ DropTempClan
    \/ ReadGiftHistories
    \/ MergeGiftRow
    \/ ReadVips
    \/ MergeVipRow
    \/ EnableForeignKeyChecks
    \/ VerifyCount
    \/ VerifySample
    \/ AskCommit
    \/ CommitTarget
    \/ CommitSource
    \/ RollbackTarget
    \/ RollbackSource

Spec == Init /\ [][Next]_vars

\* ----------------------------------------- the rewriter on any members text

\* The rows merge_players leaves in the target for the rows it staged.
MergedPlayers(rows) ==
    StagePlayerOldId(StagePlayerClan(StagePlayerAccount(StagePlayerId(rows))))

\* The "id" fields of a member: absent, not an integer, the id of a source
\* player or of none, and an integer beyond i32 whose low 32 bits are 1.
MemberIds == { NoId, OtherId, IntId(0, 1), IntId(0, DanglingId), IntId(1, 1) }

\* The elements of a members array: objects, strings holding an object,
\* a string holding something else, a raw value that is no object.
MemberPool ==
    { Member(enc, TRUE, id, rest) :
         enc \in {"obj", "str"}, id \in MemberIds, rest \in {1, 2} }
    \cup { Member("str", FALSE, NoId, 0), Member("raw", FALSE, NoId, 0) }

MembersTexts ==
    { EmptyText, BadText }
    \cup { ArrayText(elems) :
              elems \in UNION { [1..n -> MemberPool] : n \in 0..MaxMembers } }

\* The states in which a live run on one server reaches the loop of lines
\* 558-570 with one clan staged, for any members text of that clan.
InitMembers ==
    /\ dry_run = FALSE
    /\ id_offset \in Offsets
    /\ same_name = FALSE
    /\ src \in [ account : {{}},
                 player : PlayerTables,
                 clan : { {ClanRow(1, text)} : text \in MembersTexts },
                 gift : {<<>>},
                 vip : {<<>>} ]
    /\ tgt0 = TargetBefore([account |-> TRUE, player |-> TRUE])
    /\ ~DuplicateKey(tgt0.player, MergedPlayers(src.player))
    /\ tgt = [tgt0 EXCEPT !.player = @ \cup MergedPlayers(src.player),
                          !.temp_clan = [exists |-> TRUE,
                                         rows |-> StageClanId(src.clan)],
                          !.fk_checks = 0]
    /\ account_mapping = EmptyMap
    /\ player_mapping = BuildMapping(EmptyMap, {r.id : r \in src.player})
    /\ clan_mapping = BuildMapping(EmptyMap, {r.id : r \in src.clan})
    /\ pc = "cl_row"
    /\ todo = RowsById(tgt.temp_clan.rows)
    /\ result = "none"
    /\ outcome = "running"
    /\ stmts = [ t |-> { "SELECT", "START TRANSACTION", "SET", "CREATE TEMPORARY TABLE",
                         "UPDATE", "ALTER", "INSERT", "DROP TEMPORARY TABLE" },
                 s |-> { "SELECT", "START TRANSACTION" } ]
    /\ tx = [t |-> "open", s |-> "open"]
    /\ started = << "schema", "accounts", "players", "clans" >>
    /\ finished = << "schema", "accounts", "players" >>
    /\ prompts = << [q |-> "merge", input |-> <<"y", "e", "s", "nl">>] >>
    /\ report = NoReport

NextMembers == UpdateClanMembers

SpecMembers == InitMembers /\ [][NextMembers]_vars

\* ------------------------------------- ensure_old_id_columns called twice

\* The states in which run_merge calls ensure_old_id_columns (line 187),
\* for a target whose account and player tables have the column or not.
InitSchema ==
    /\ dry_run \in BOOLEAN
    /\ id_offset \in Offsets
    /\ same_name \in BOOLEAN
    /\ src \in [ account : SUBSET SrcIds, player : {{}}, clan : {{}},
                 gift : {<<>>}, vip : {<<>>} ]
    /\ \E cols \in [account : BOOLEAN, player : BOOLEAN] :
          /\ tgt0 = TargetBefore(cols)
          /\ tgt = [TargetBefore(cols) EXCEPT !.fk_checks = 0]
    /\ account_mapping = EmptyMap
    /\ player_mapping = EmptyMap
    /\ clan_mapping = EmptyMap
    /\ pc = "col_account"
    /\ todo = <<>>
    /\ result = "none"
    /\ outcome = "running"
    /\ stmts = IF dry_run
               THEN [t |-> {"SELECT", "SET"}, s |-> {"SELECT"}]
               ELSE [t |-> {"SELECT", "START TRANSACTION", "SET"},
                     s |-> {"SELECT", "START TRANSACTION"}]
    /\ tx = IF dry_run THEN [t |-> "none", s |-> "none"]
                       ELSE [t |-> "open", s |-> "open"]
    /\ started = <<>>
    /\ finished = <<>>
    /\ prompts = IF dry_run THEN <<>>
                 ELSE << [q |-> "merge", input |-> <<"y", "e", "s", "nl">>] >>
    /\ report = NoReport

\* ensure_old_id_columns is called a second time on the same connection
\* once its first call has returned Ok.  The statements of the first call
\* are set aside, so that stmts holds those of the second.
EnsureOldIdColumnsAgain ==
    /\ pc = "acc_read"
    /\ todo = <<>>
    /\ pc' = "col_account"
    /\ todo' = << "again" >>
    /\ stmts' = [t |-> {}, s |-> {}]
    /\ UNCHANGED << config, tgt, mappings, result, outcome, tx, started,
                    finished, prompts, report >>

NextSchema ==
    \/ EnsureOldIdAccount
    \/ EnsureOldIdPlayer
    \/ EnsureOldIdColumnsAgain

SpecSchema == InitSchema /\ [][NextSchema]_vars

\* ------------------------------------------- ids at the edges of the i32

\* Source ids in the whole range of the INT column the tool reads as i32:
\* negative, zero, positive, the largest.
WideIds == {-1, 0, 1, I32Max}

\* Offsets above every id the target holds (TargetIds), as the operator is
\* told to choose them.
LargeOffsets == {13, 20}

\* The states in which run_merge calls ensure_old_id_columns (line 187), for
\* a source whose account, player and clan ids are taken from WideIds.
InitIds ==
    /\ dry_run \in BOOLEAN
    /\ id_offset \in LargeOffsets
    /\ same_name = FALSE
    /\ src \in [ account : SUBSET WideIds,
                 player : SUBSET {PlayerRow(i, Null, Null) : i \in {-1, I32Max}},
                 clan : SUBSET {ClanRow(i, EmptyText) : i \in {-1, I32Max}},
                 gift : {<<>>}, vip : {<<>>} ]
    /\ \E cols \in {[account |-> had, player |-> had] : had \in BOOLEAN} :
          /\ tgt0 = TargetBefore(cols)
          /\ tgt = [TargetBefore(cols) EXCEPT !.fk_checks = 0]
    /\ account_mapping = EmptyMap
    /\ player_mapping = EmptyMap
    /\ clan_mapping = EmptyMap
    /\ pc = "col_account"
    /\ todo = <<>>
    /\ result = "none"
    /\ outcome = "running"
    /\ stmts = IF dry_run
               THEN [t |-> {"SELECT", "SET"}, s |-> {"SELECT"}]
               ELSE [t |-> {"SELECT", "START TRANSACTION", "SET"},
                     s |-> {"SELECT", "START TRANSACTION"}]
    /\ tx = IF dry_run THEN [t |-> "none", s |-> "none"]
                       ELSE [t |-> "open", s |-> "open"]
    /\ started = <<>>
    /\ finished = <<>>
    /\ prompts = IF dry_run THEN <<>>
                 ELSE << [q |-> "merge", input |-> <<"y", "e", "s", "nl">>] >>
    /\ report = NoReport

\* run_merge up to the mapping of the clans: the three places where an id
\* is computed as old_id + offset (lines 318, 433, 521).
NextIds ==
    \/ EnsureOldIdAccount
    \/ EnsureOldIdPlayer
    \/ ReadAccounts
    \/ MergeAccountRow
    \/ ReadPlayers
    \/ ReadClans

SpecIds == InitIds /\ [][NextIds]_vars

\* ================================================================ properties

Range(seq) == {seq[i] : i \in 1..Len(seq)}

IsPrefix(a, b) == Len(a) <= Len(b) /\ SubSeq(b, 1, Len(a)) = a

SourcePlayerIds == {p.id : p \in src.player}

SourceClanIds == {c.id : c \in src.clan}

\* The rows the run has added to a target table.
Merged(table) == tgt[table] \ tgt0[table]

\* ------------------------------------------------------------------- C1

\* The target row a source player was merged to: id and old_id as the
\* mapping says, and, when the player's account and clan are source rows,
\* references to the rows these were merged to.
MergedPlayerOf(p) ==
    \E r \in tgt.player :
       /\ r.id = p.id + id_offset
       /\ r.old_id = Some(p.id)
       /\ (~IsNull(p.account_id) /\ Val(p.account_id) \in src.account)
             => /\ r.account_id = Some(Val(p.account_id) + id_offset)
                /\ \E a \in tgt.account : a.id = Val(r.account_id)
       /\ (~IsNull(p.clan) /\ Val(p.clan) \in SourceClanIds)
             => /\ r.clan = Some(Val(p.clan) + id_offset)
                /\ \E c \in tgt.clan : c.id = Val(r.clan)

\* C1: after a committed run every source account, player and clan has its
\* row in the target under id + id_offset, and a merged player references
\* the merged rows of the account and of the clan it referenced in the
\* source.
C1_ReferencesFollowTheMerge ==
    outcome = "committed" =>
       /\ \A a \in src.account :
             \E r \in tgt.account : r.id = a + id_offset /\ r.old_id = Some(a)
       /\ \A p \in src.player : MergedPlayerOf(p)
       /\ \A c \in src.clan : \E r \in tgt.clan : r.id = c.id + id_offset

\* The same statement for the runs in which the name `{server2.database}`
\* denotes the source's schema on the target connection.
C1_OnOneServer == ~same_name => C1_ReferencesFollowTheMerge

\* ------------------------------------------------------------------- C2

MappingOk(m, ids) ==
    /\ DOMAIN m \subseteq ids
    /\ \A k \in DOMAIN m : m[k] = k + id_offset
    /\ \A k1, k2 \in DOMAIN m : m[k1] = m[k2] => k1 = k2

\* C2: each of the three mappings sends a source id to that id plus
\* id_offset, sends no two ids to the same new id, and, once its merger has
\* finished, has exactly the source ids of its kind as keys.
C2_MappingsAreOffsetBijections ==
    /\ MappingOk(account_mapping, src.account)
    /\ MappingOk(player_mapping, SourcePlayerIds)
    /\ MappingOk(clan_mapping, SourceClanIds)
    /\ "accounts" \in Range(finished) => DOMAIN account_mapping = src.account
    /\ "players" \in Range(finished) => DOMAIN player_mapping = SourcePlayerIds
    /\ "clans" \in Range(finished) => DOMAIN clan_mapping = SourceClanIds

C2_Witness ==
    /\ finished = Steps
    /\ Cardinality(DOMAIN account_mapping) = 2
    /\ Cardinality(DOMAIN player_mapping) = 2
    /\ DOMAIN clan_mapping # {}

\* ------------------------------------------------------------------- C3

\* The player rows the staging table was filled from.
StagedFrom == IF same_name THEN tgt0.player ELSE src.player

\* C3: a player whose clan column is the sentinel -1 keeps -1 in the row the
\* merge stages and inserts for it, whatever the offset.
C3_SentinelIsKept ==
    \A p \in StagedFrom :
       p.clan = Some(Sentinel) =>
          \A r \in Merged("player") \cup
                   (IF tgt.temp_player.has_old THEN tgt.temp_player.rows ELSE {}) :
             r.id = p.id + id_offset => r.clan = Some(Sentinel)

C3_Witness ==
    /\ ~same_name
    /\ outcome = "committed"
    /\ \E p \in src.player :
          /\ p.clan = Some(Sentinel)
          /\ \E r \in Merged("player") : r.old_id = Some(p.id) /\ r.clan = Some(Sentinel)

\* ------------------------------------------------------------------- C4

\* C4: the steps start in the order schema, accounts, players, clans,
\* histories, auxiliary, verify, each after the one before it has finished
\* and none twice; the prompt for the commit, and every COMMIT, comes after
\* run_merge has returned, and run_merge returns Ok only after all seven.
C4_PipelineOrder ==
    /\ IsPrefix(started, Steps)
    /\ IsPrefix(finished, started)
    /\ Len(started) <= Len(finished) + 1
    /\ result = "ok" => finished = Steps
    /\ result = "none" =>
          /\ \A i \in 1..Len(prompts) : prompts[i].q # "commit"
          /\ "COMMIT" \notin stmts.t \cup stmts.s
          /\ "ROLLBACK" \notin stmts.t \cup stmts.s

C4_Witness == outcome = "committed" /\ finished = Steps /\ Len(prompts) = 2

\* ------------------------------------------------------------------- C5

\* C5: while clan members, gift rows or vip rows are being rewritten, every
\* source player id is a key of the player mapping.
C5_PlayerMappingComesFirst ==
    pc \in {"cl_select", "cl_row", "gh_row", "vip_row"} =>
       SourcePlayerIds \subseteq DOMAIN player_mapping

C5_Witness ==
    /\ pc = "cl_row"
    /\ Cardinality(SourcePlayerIds) = 2
    /\ "histories" \notin Range(started)

\* ------------------------------------------------------------------- C6

Issued(k) == k \in stmts.t \cup stmts.s

\* A step of the merge has failed: its error was returned by run_merge, or
\* it was the read of player_vip.
StepFailed == result = "err" \/ report.vip_read = "failed"

\* C6: once a step has failed, the failed read of player_vip included, no
\* later step is begun, run_merge does not return Ok, no COMMIT is issued,
\* and a live run ends with its rollback.
C6_FailureAbortsTheRun ==
    StepFailed =>
       /\ Len(started) <= Len(finished) + 1
       /\ report.vip_read = "failed" => "verify" \notin Range(started)
       /\ result # "ok"
       /\ ~Issued("COMMIT")
       /\ (~dry_run /\ pc = "done") => "ROLLBACK" \in stmts.t

\* The part of C6 the code keeps: an error run_merge returns ends the merge.
C6_ReturnedErrorAborts ==
    result = "err" =>
       /\ Len(started) <= Len(finished) + 1
       /\ pc \in {"rollback_t", "rollback_s", "done"}
       /\ ~Issued("COMMIT")

\* ------------------------------------------------------------------- C7

LiveRunFailed == ~dry_run /\ result = "err" /\ pc = "done"

\* C7 as stated: a live run whose merge failed has issued ROLLBACK on both
\* stores, also when the first of the two calls failed, and COMMIT on none.
C7_BothRolledBack ==
    LiveRunFailed =>
       /\ "ROLLBACK" \in stmts.t
       /\ "ROLLBACK" \in stmts.s
       /\ ~Issued("COMMIT")

\* C7: a live run whose merge failed has issued ROLLBACK on the target, and
\* on the source exactly when the target's ROLLBACK succeeded; it has issued
\* COMMIT on neither store.
C7_RollbackTargetThenSource ==
    LiveRunFailed =>
       /\ "ROLLBACK" \in stmts.t
       /\ "ROLLBACK" \in stmts.s <=> tx.t = "rolled_back"
       /\ ~Issued("COMMIT")

C7_Witness ==
    /\ LiveRunFailed
    /\ tx = [t |-> "rolled_back", s |-> "rolled_back"]
    /\ Merged("account") # {}

\* The case C7 as stated gets wrong: the target's ROLLBACK failed.
C7_FirstRollbackFailed ==
    LiveRunFailed /\ tx.t = "open" /\ "ROLLBACK" \notin stmts.s

\* ------------------------------------------------------------------- C8

Writes ==
    { "INSERT", "UPDATE", "ALTER", "CREATE TEMPORARY TABLE",
      "DROP TEMPORARY TABLE" }

\* The tables, columns and staging tables of the target.
Content(store) ==
    << store.account, store.player, store.clan, store.gift, store.vip,
       store.cols, store.temp_player, store.temp_clan >>

\* The mapping a merge of these source ids has when it is complete.
FullMapping(ids) == [k \in ids |-> k + id_offset]

\* C8: a dry run issues no write against the target and leaves every table
\* of it as it was; a run that ends in success has the same three mappings
\* whether it is a dry run or not, those of the source's ids.
C8_DryRunIsolation ==
    /\ dry_run => /\ stmts.t \cap Writes = {}
                  /\ Content(tgt) = Content(tgt0)
    /\ result = "ok" =>
          /\ account_mapping = FullMapping(src.account)
          /\ player_mapping = FullMapping(SourcePlayerIds)
          /\ clan_mapping = FullMapping(SourceClanIds)

C8_Witness ==
    /\ dry_run
    /\ outcome = "dry_ok"
    /\ src.account # {} /\ src.player # {} /\ src.clan # {}
    /\ src.gift # <<>> /\ src.vip # <<>>
    /\ ~tgt0.cols.account

\* ------------------------------------------------------------------- C9

\* C9: a dry run opens no transaction and issues no START TRANSACTION,
\* COMMIT or ROLLBACK on either store, on the success path and on the
\* failure path.
C9_DryRunHasNoTransaction ==
    dry_run =>
       /\ tx = [t |-> "none", s |-> "none"]
       /\ ~Issued("START TRANSACTION")
       /\ ~Issued("COMMIT")
       /\ ~Issued("ROLLBACK")

C9_Witness == dry_run /\ result = "err" /\ pc = "done" /\ started # <<>>

\* ------------------------------------------------------------------ C10

\* The lines that read 'yes' whatever their case and the blanks around.
YesLines == { <<"y", "e", "s", "nl">>, <<"sp", "Y", "E", "S", "nl">> }

Answered(q, yes) ==
    \E i \in 1..Len(prompts) :
       prompts[i].q = q /\ (prompts[i].input \in YesLines <=> yes)

\* What holds of the two prompts apart from the two points C10 gets wrong.
GatesHold ==
    /\ Issued("COMMIT") => /\ result = "ok"
                           /\ Answered("merge", TRUE)
                           /\ Answered("commit", TRUE)
    /\ Answered("merge", FALSE) => /\ tx = [t |-> "none", s |-> "none"]
                                   /\ ~Issued("START TRANSACTION")
                                   /\ pc = "done" /\ outcome = "cancelled"
    /\ Answered("commit", FALSE) => ~Issued("COMMIT")
    /\ dry_run => prompts = <<>>
    /\ Len(prompts) <= 2

\* C10 as stated: an answer other than yes to the first prompt leaves the
\* target without any statement issued against it, and an answer other than
\* yes to the second rolls both stores back.
C10_GatesAsStated ==
    /\ GatesHold
    /\ Answered("merge", FALSE) => stmts.t = {}
    /\ (Answered("commit", FALSE) /\ pc = "done") =>
          "ROLLBACK" \in stmts.t /\ "ROLLBACK" \in stmts.s

\* C10: a live run asks before it opens the transactions and again before
\* it commits.  When the first answer is not yes no transaction is opened
\* and the target has seen the SELECTs of print_statistics only; COMMIT is
\* issued only after run_merge returned Ok and the second answer was yes;
\* another second answer issues ROLLBACK on the target, and on the source
\* exactly when the target's succeeded.  A dry run asks nothing.
C10_TwoGates ==
    /\ GatesHold
    /\ Answered("merge", FALSE) => stmts.t = {"SELECT"} /\ Content(tgt) = Content(tgt0)
    /\ (Answered("commit", FALSE) /\ pc = "done") =>
          /\ "ROLLBACK" \in stmts.t
          /\ "ROLLBACK" \in stmts.s <=> tx.t = "rolled_back"

C10_Witness == outcome = "cancelled" /\ Answered("merge", FALSE)

C10_SecondAnswerNo ==
    /\ outcome = "rolled_back"
    /\ Answered("commit", FALSE)
    /\ tx = [t |-> "rolled_back", s |-> "rolled_back"]

\* ------------------------------------------------------------------ C11

\* The members text the rewriter left in the staging row of source clan c.
StagedMembers(c) ==
    (CHOOSE r \in tgt.temp_clan.rows : r.id = c.id + id_offset).members

\* Every clan read by line 555-556 has been through the loop of lines 558-570
\* without an error.
MembersRewritten == pc = "cl_insert" /\ result = "none"

\* The numeric id of a member is a key of the player mapping.
IsKey(id) == id.t = "int" /\ id.hi = 0 /\ id.lo \in DOMAIN player_mapping

\* An element that holds a JSON object, as it is or in a string.
ValidMember(m) == m.enc \in {"obj", "str"} /\ m.ok

AllOf(text, enc) ==
    \A i \in 1..Len(text.elems) : text.elems[i].enc = enc /\ text.elems[i].ok

Uniform(text) ==
    text.kind = "array" /\ (AllOf(text, "obj") \/ AllOf(text, "str"))

\* Every element of `out` is the element of `in` at its place but for the id.
SameButIds(in, out) ==
    /\ out.kind = "array"
    /\ Len(out.elems) = Len(in.elems)
    /\ \A i \in 1..Len(in.elems) :
          /\ out.elems[i].enc = in.elems[i].enc
          /\ out.elems[i].ok = in.elems[i].ok
          /\ out.elems[i].rest = in.elems[i].rest

KeysRewritten(in, out) ==
    \A i \in 1..Len(in.elems) :
       IsKey(in.elems[i].id) =>
          out.elems[i].id = IntId(0, player_mapping[in.elems[i].id.lo])

\* C11: the rewriter does not fail on an array of objects or an array of
\* string-encoded objects, and the text it writes is an array of the same
\* length, order and encoding in which every id that is a key of the player
\* mapping is the mapped id and every other field is as it was.
C11_UniformArrayRewritten ==
    \A c \in src.clan :
       Uniform(c.members) =>
          /\ pc = "cl_row" =>
                update_clan_members_json(player_mapping, c.members).ok
          /\ MembersRewritten =>
                /\ SameButIds(c.members, StagedMembers(c))
                /\ KeysRewritten(c.members, StagedMembers(c))

C11_Witness ==
    /\ MembersRewritten
    /\ \E c \in src.clan :
          /\ AllOf(c.members, "str")
          /\ Len(c.members.elems) = 2
          /\ IsKey(c.members.elems[2].id)
          /\ ~IsKey(c.members.elems[1].id)
          /\ StagedMembers(c).elems[2].id # c.members.elems[2].id

\* ------------------------------------------------------------------ C12

Mixed(text) ==
    /\ text.kind = "array"
    /\ \A i \in 1..Len(text.elems) : ValidMember(text.elems[i])
    /\ \E i \in 1..Len(text.elems) : text.elems[i].enc = "obj"
    /\ \E i \in 1..Len(text.elems) : text.elems[i].enc = "str"

\* C12: of an array that mixes objects and string-encoded objects the
\* rewriter writes an array of objects only, in which every id that is a key
\* of the player mapping is the mapped id, those of the elements that were
\* strings included.
C12_MixedArrayBecomesObjects ==
    \A c \in src.clan :
       (Mixed(c.members) /\ MembersRewritten) =>
          /\ \A i \in 1..Len(StagedMembers(c).elems) :
                StagedMembers(c).elems[i].enc = "obj"
          /\ KeysRewritten(c.members, StagedMembers(c))

\* ------------------------------------------------------------------ C13

NoKeys(text) ==
    text.kind = "array" /\ \A i \in 1..Len(text.elems) : ~IsKey(text.elems[i].id)

\* C13: an array none of whose ids is a key of the player mapping, ids
\* beyond the i32 range included, is written back as it was read.
C13_RoundTrip ==
    \A c \in src.clan :
       (NoKeys(c.members) /\ MembersRewritten) => StagedMembers(c) = c.members

\* The same for the arrays whose integer ids are all within i32.
C13_RoundTripWithinI32 ==
    \A c \in src.clan :
       (/\ NoKeys(c.members)
        /\ \A i \in 1..Len(c.members.elems) : c.members.elems[i].id.hi = 0
        /\ MembersRewritten) => StagedMembers(c) = c.members

\* ------------------------------------------------------------------ C14

Unparsable(text) ==
    \/ text.kind = "bad"
    \/ text.kind = "array" /\ \E i \in 1..Len(text.elems) : ~ValidMember(text.elems[i])

\* C14: the rewriting of a text that is no JSON array, or that has an
\* element which is no JSON object payload, ends in an error; it never
\* succeeds with such an element in what it wrote.
C14_UnparsableFails ==
    \A c \in src.clan :
       /\ Unparsable(c.members) => ~MembersRewritten
       /\ MembersRewritten => ~Unparsable(StagedMembers(c))

\* What the code keeps of C14: it fails on a text that is no array and on
\* an unparsable element that comes before the first raw object.
C14_FailsBeforeFirstObject ==
    \A c \in src.clan :
       (\/ c.members.kind = "bad"
        \/ /\ c.members.kind = "array"
           /\ \E i \in 1..Len(c.members.elems) :
                 /\ ~ValidMember(c.members.elems[i])
                 /\ \A j \in 1..(i - 1) : c.members.elems[j].enc # "obj")
       => ~MembersRewritten

\* ------------------------------------------------------------------ C15

SecondCall == todo = << "again" >>

\* C15 as stated: the second call finds old_id on account and on player and
\* issues no schema change, in either mode.  (That the call raises nothing
\* of its own is the absence of an ALTER of a column that exists; a failing
\* connection can end any call.)
C15_SecondCallFindsColumns ==
    SecondCall =>
       /\ tgt.cols.account /\ tgt.cols.player
       /\ "ALTER" \notin stmts.t

\* C15: the second call issues no schema change in either mode; in normal
\* mode it finds both columns present, and in dry-run it finds them as the
\* first call found them, which added nothing.
C15_SecondCallChangesNothing ==
    SecondCall =>
       /\ "ALTER" \notin stmts.t
       /\ ~dry_run => tgt.cols.account /\ tgt.cols.player
       /\ dry_run => tgt.cols = tgt0.cols

C15_Witness ==
    /\ SecondCall
    /\ pc = "acc_read"
    /\ ~dry_run
    /\ ~tgt0.cols.account /\ ~tgt0.cols.player
    /\ stmts.t = {"SELECT"}

\* The case C15 as stated gets wrong: a second dry-run call on a target
\* without the columns.
C15_DryRunSecondCall ==
    SecondCall /\ pc = "acc_read" /\ dry_run /\ ~tgt.cols.account

\* ------------------------------------------------------------------ C16

\* The operator has answered the prompt of lines 152-156.
DecisionMade == \E i \in 1..Len(prompts) : prompts[i].q = "commit"

\* run_merge ended while verify_merge was running.
AuditFailed ==
    /\ "verify" \in Range(started)
    /\ "verify" \notin Range(finished)
    /\ result = "err" \/ outcome = "panic"

\* C16: the orphan audit is reported after the decision between commit and
\* rollback has been made, and neither orphans found nor a failure of the
\* audit keep a live run from that decision or cause a rollback.
C16_VerificationNeverBlocks ==
    /\ (~dry_run /\ report.printed) => DecisionMade
    /\ ~AuditFailed

\* What the code keeps of C16: orphans found, when they are listed without
\* an error, leave run_merge returning Ok.
C16_OrphansDoNotBlock ==
    (report.count > 0 /\ "verify" \in Range(finished)) => result = "ok"

\* ------------------------------------------------------------------ C17

\* The rows the run has appended to gift_code_histories or player_vip.
Added(table) == SubSeq(tgt[table], Len(tgt0[table]) + 1, Len(tgt[table]))

\* Row i written to `table` is source row i with its player_id looked up.
LookedUp(table) ==
    /\ Len(Added(table)) <= Len(src[table])
    /\ \A i \in 1..Len(Added(table)) :
          LET from == src[table][i]
              to == Added(table)[i]
          IN /\ to.code = from.code
             /\ to.player_id = IF from.player_id \in DOMAIN player_mapping
                               THEN player_mapping[from.player_id]
                               ELSE from.player_id

\* C17: every row written to gift_code_histories and to player_vip has the
\* player mapping's value for the source row's player_id when that id is a
\* key, and the source player_id itself when it is not.
C17_IdentityOnMiss == LookedUp("gift") /\ LookedUp("vip")

C17_Witness ==
    /\ outcome = "committed"
    /\ 1 \notin DOMAIN player_mapping
    /\ Len(Added("gift")) = 1 /\ Added("gift")[1].player_id = 1
    /\ Len(Added("vip")) = 1 /\ Added("vip")[1].player_id = 1

\* The other case of C17: the player_id is a key and the row has its value.
C17_Hit ==
    /\ outcome = "committed"
    /\ 1 \in DOMAIN player_mapping
    /\ Len(Added("gift")) = 1 /\ Added("gift")[1].player_id = 1 + id_offset

\* ------------------------------------------------------------------ C18

\* C18: every account row and every player row the run inserts has old_id
\* equal to the id of the row it was copied from, and id = old_id +
\* id_offset; the rows the target held before the run stay as they were,
\* old_id included.
C18_Provenance ==
    /\ \A r \in Merged("account") :
          /\ r.old_id = Some(r.id - id_offset)
          /\ r.id - id_offset \in src.account
    /\ \A r \in Merged("player") :
          /\ ~IsNull(r.old_id)
          /\ r.id = Val(r.old_id) + id_offset
          /\ \E p \in StagedFrom : p.id = Val(r.old_id)
    /\ tgt0.account \subseteq tgt.account
    /\ tgt0.player \subseteq tgt.player

C18_Witness ==
    /\ outcome = "committed"
    /\ ~same_name
    /\ Cardinality(Merged("account")) = 2
    /\ \E r \in Merged("player") : r.old_id = Some(1) /\ r.id = 1 + id_offset

\* ------------------------------------------------------------------ C19

\* What verify_merge is to report of the target as it is.
ReportIsRight ==
    LET orphans == Orphans(tgt.player, tgt.account)
        count == Cardinality(orphans)
    IN /\ report.count = count
       /\ report.sample \subseteq orphans
       /\ Cardinality(report.sample) = Min(count, SampleLimit)
       /\ report.remainder = IF count > SampleLimit THEN count - SampleLimit ELSE 0

\* verify_merge is over and none of its queries returned an error.
VerifyOver ==
    /\ "verify" \in Range(started)
    /\ pc \notin {"vf_count", "vf_sample"}
    /\ result # "err"

\* C19: once the verifier is over, its count is the number of target
\* players whose account_id matches no target account, its sample holds
\* min(count, 20) of them, each once, and its remainder is count - 20 when
\* the count exceeds 20.
C19_OrphanReport == VerifyOver => ReportIsRight

\* What the code keeps of C19: the report is right whenever verify_merge
\* returns.
C19_ReportWhenReturned == "verify" \in Range(finished) => ReportIsRight

\* ------------------------------------------------------------------ C20

\* The row the run has inserted for source player p, if there is one.
MergedRowsOf(p) == { r \in Merged("player") : r.old_id = Some(p.id) }

\* lookup of the spec: the mapped id of a key, and any other value itself.
Lookup(m, ref) ==
    IF IsNull(ref) \/ Val(ref) \notin DOMAIN m THEN ref ELSE Some(m[Val(ref)])

\* C20 as stated: a merged player's account_id, and its clan reference when
\* that is not -1, is the lookup of the source value: offset when the
\* referenced id is a source id of its kind, unchanged when it is not.
C20_ReferencesLookedUp ==
    ~same_name =>
       \A p \in src.player : \A r \in MergedRowsOf(p) :
          /\ r.account_id = Lookup(account_mapping, p.account_id)
          /\ p.clan # Some(Sentinel) => r.clan = Lookup(clan_mapping, p.clan)

\* C20: a merged player's account_id is the source value plus id_offset
\* whenever it is not NULL, and its clan reference is the source value plus
\* id_offset whenever it is neither NULL nor -1, whether or not the id
\* referenced is a source id; NULL and -1 are written as they are.
C20_ReferencesOffset ==
    ~same_name =>
       \A p \in src.player : \A r \in MergedRowsOf(p) :
          /\ r.account_id = IF IsNull(p.account_id) THEN Null
                            ELSE Some(Val(p.account_id) + id_offset)
          /\ r.clan = IF IsNull(p.clan) \/ p.clan = Some(Sentinel) THEN p.clan
                      ELSE Some(Val(p.clan) + id_offset)

C20_Witness ==
    /\ ~same_name
    /\ outcome = "committed"
    /\ \E p \in src.player :
          /\ p.account_id = Some(DanglingId)
          /\ \E r \in MergedRowsOf(p) : r.account_id = Some(DanglingId + id_offset)

\* ------------------------------------------------------------------ C21

Offset(ids) == {k + id_offset : k \in ids}

\* The number of player_vip rows the run has read: none when the read failed.
VipsRead == IF report.vip_read = "ok" THEN Len(src.vip) ELSE 0

\* C21: the ids of the player and clan rows a live run has inserted are the
\* mapped ids of the keys read from the source, and a live run that ended
\* in success has inserted as many rows of every kind as it read.
C21_WritesWhatItRead ==
    ~dry_run =>
       /\ "players" \in Range(finished) =>
             {r.id : r \in Merged("player")} = Offset(DOMAIN player_mapping)
       /\ "clans" \in Range(finished) =>
             {r.id : r \in Merged("clan")} = Offset(DOMAIN clan_mapping)
       /\ result = "ok" =>
             /\ Cardinality(Merged("account")) = Cardinality(src.account)
             /\ Cardinality(Merged("player")) = Cardinality(src.player)
             /\ Cardinality(Merged("clan")) = Cardinality(src.clan)
             /\ Len(Added("gift")) = Len(src.gift)
             /\ Len(Added("vip")) = VipsRead

\* The same statement for the runs in which the name `{server2.database}`
\* denotes the source's schema on the target connection.
C21_OnOneServer == ~same_name => C21_WritesWhatItRead

\* ------------------------------------------------------------------ C22

\* C22: COMMIT goes to the source only after the target's COMMIT succeeded;
\* a run whose target COMMIT succeeded and whose source COMMIT failed ends
\* with an error, and a run reports success only with both committed.
C22_CommitTargetThenSource ==
    /\ "COMMIT" \in stmts.s => "COMMIT" \in stmts.t /\ tx.t = "committed"
    /\ (pc = "done" /\ tx.t = "committed" /\ tx.s # "committed") => outcome = "error"
    /\ outcome = "committed" => tx = [t |-> "committed", s |-> "committed"]

C22_Witness ==
    /\ pc = "done"
    /\ "COMMIT" \in stmts.s
    /\ tx = [t |-> "committed", s |-> "open"]
    /\ outcome = "error"

\* ------------------------------------------------------------------ C23

\* The ids of the rows of a kind the target held before the run.
TargetIdsOf(kind) == {r.id : r \in tgt0[kind]}

\* Every id of a kind the target held before the run is below the offset.
OffsetAboveTarget ==
    \A kind \in {"account", "player", "clan"} :
       \A i \in TargetIdsOf(kind) : id_offset > i

\* C23: when the offset is greater than the largest id the target holds of
\* a kind, no id the merge gives to a source row of that kind is the id of a
\* row the target already held, whatever the source ids are (zero, negative,
\* or with a sum beyond the 32-bit signed range).
C23_NoCollision ==
    OffsetAboveTarget =>
       /\ \A k \in DOMAIN account_mapping :
             account_mapping[k] \notin TargetIdsOf("account")
       /\ \A k \in DOMAIN player_mapping :
             player_mapping[k] \notin TargetIdsOf("player")
       /\ \A k \in DOMAIN clan_mapping :
             clan_mapping[k] \notin TargetIdsOf("clan")

\* The precondition of C23 holds in every state of SpecIds.
C23_Precondition == OffsetAboveTarget

\* A source id whose sum with the offset leaves i32 ends the run of a build
\* with overflow checks in a panic ...
C23_OverflowPanics ==
    /\ outcome = "panic"
    /\ \E k \in src.account : Overflows(k)

\* ... and gets a negative id from a build without them.
C23_OverflowWraps ==
    \E k \in DOMAIN account_mapping :
       /\ Overflows(k)
       /\ account_mapping[k] < 0
       /\ ~dry_run
       /\ \E r \in tgt.account : r.id = account_mapping[k]

\* Where the sum is computed in range from a source id that is not
\* negative, the id is the sum and is above every id of the target.
C23_InRangeIsAbove ==
    \A k \in DOMAIN account_mapping :
       (k >= 0 /\ ~Overflows(k)) =>
          /\ account_mapping[k] = k + id_offset
          /\ \A i \in TargetIdsOf("account") : account_mapping[k] > i

\* ------------------------------------------------------------------ C24

\* C24: FOREIGN_KEY_CHECKS is 1 again on the target connection whenever
\* run_merge has returned, Ok or Err, and while the verifier runs and the
\* commit question is asked.
C24_ForeignKeyChecksRestored ==
    /\ result # "none" => tgt.fk_checks = 1
    /\ pc \in {"vf_count", "vf_sample", "commit_prompt"} => tgt.fk_checks = 1

\* What the code keeps of C24: the checks are back on the success path.
C24_RestoredOnSuccess ==
    (result = "ok" \/ pc \in {"vf_count", "vf_sample", "commit_prompt"})
       => tgt.fk_checks = 1

\* ------------------------------------------------------------------ C25

ReadOnlyKinds == {"SELECT", "START TRANSACTION", "COMMIT", "ROLLBACK"}

\* C25: no step of any run changes a table of the source, and nothing but
\* SELECT and the transaction statements is issued on the source connection.
C25_SourceIsReadOnly == [][src' = src /\ stmts'.s \subseteq ReadOnlyKinds]_vars

C25_Witness ==
    /\ outcome = "committed"
    /\ Merged("account") # {} /\ Merged("player") # {} /\ Merged("clan") # {}
    /\ Added("gift") # <<>> /\ Added("vip") # <<>>
    /\ stmts.s = {"SELECT", "START TRANSACTION", "COMMIT"}

\* ------------------------------------------------------------------ C26

\* C26: every row the target's account, player, clan, gift_code_histories
\* and player_vip tables held before the run is in them, as it was, in
\* every state of every run.
C26_TargetIsAppendOnly ==
    /\ tgt0.account \subseteq tgt.account
    /\ tgt0.player \subseteq tgt.player
    /\ tgt0.clan \subseteq tgt.clan
    /\ IsPrefix(tgt0.gift, tgt.gift)
    /\ IsPrefix(tgt0.vip, tgt.vip)

C26_Witness ==
    /\ pc = "done"
    /\ outcome = "rolled_back"
    /\ Merged("clan") # {} /\ Merged("player") # {}
    /\ \E c \in Merged("clan") : c.members # EmptyText

====
